---------------------------- MODULE Spec2Model ----------------------------
(* A model of runc (src/runc.c): a script runner that compiles a C source   *)
(* file into a content-addressed cache entry on a miss and then launches    *)
(* the cached artifact.                                                     *)
(*                                                                          *)
(* C strings are sequences of one-character strings; the terminator is not  *)
(* stored: index Len(s)+1 of a string reads as NUL.                         *)
EXTENDS Integers, Sequences, FiniteSets, TLC

VARIABLES proc, fs, call

vars == <<proc, fs, call>>

\* a NULL pointer where a string is expected: no C string of the model equals it
None == <<"NULL">>
NUL == "NUL"
\* the vertical tab, which TLA+ strings cannot escape
VT == "VT"

(***************************************************************************)
(* Bounds of the model                                                     *)
(***************************************************************************)
\* longest hint string handed to hint_only_flags / compile in SpecFn
MaxHintLen == 3
\* most lines of a source text handed to extract_hint in SpecFn
MaxLines == 2
\* most trailing program arguments handed to launch in SpecFn
MaxArgs == 2
\* exit codes 0..MaxExit (and 255) are the codes a child may exit with
MaxExit == 2

(***************************************************************************)
(* Characters and strings                                                  *)
(***************************************************************************)
Cat3(a, b, c) == a \o b \o c

\* s[i] as C reads it: the terminator sits right after the last character
CharAt(s, i) == IF i <= Len(s) THEN s[i] ELSE NUL

\* <ctype.h> isspace in the C locale
isspace(c) == c \in {" ", "\t", "\n", VT, "\f", "\r"}

RECURSIVE Flatten(_)
Flatten(ss) == IF ss = <<>> THEN <<>> ELSE Head(ss) \o Flatten(Tail(ss))

\* all sequences over S of length 0..n
RECURSIVE SeqsUpTo(_, _)
SeqsUpTo(S, n) ==
    IF n = 0 THEN {<<>>}
    ELSE LET shorter == SeqsUpTo(S, n - 1)
         IN  shorter \cup {Append(s, c) : s \in shorter, c \in S}

DEFAULT_COMPILER ==
    <<"c","l","a","n","g"," ","-","W","a","l","l"," ","-","s","t","d","=","c","9","9">>

(***************************************************************************)
(* hint_only_flags                                                         *)
(***************************************************************************)
\* The loop `for (c = options; c; c++)` tests the pointer, never *c, so it
\* only leaves through one of the two returns in its body; i is c - options + 1.
RECURSIVE hint_only_flags_from(_, _)
hint_only_flags_from(options, i) ==
    IF CharAt(options, i) = "-" THEN [result |-> TRUE, last |-> i]
    ELSE IF ~isspace(CharAt(options, i)) THEN [result |-> FALSE, last |-> i]
    ELSE hint_only_flags_from(options, i + 1)

hint_only_flags(options) == hint_only_flags_from(options, 1).result

\* index of the last character the scan reads
hint_only_flags_last(options) == hint_only_flags_from(options, 1).last

(***************************************************************************)
(* extract_hint                                                            *)
(***************************************************************************)
\* The pattern "^[:blank:]*/\*!([^\*]+)\*/[:blank:]*$" under
\* REG_EXTENDED | REG_NEWLINE.  `[:blank:]` outside an enclosing bracket is an
\* ordinary bracket expression: the set of the characters : b l a n k.
BlankBracket == {":", "b", "l", "a", "n", "k"}

\* `[^\*]`: a backslash is an ordinary member of a bracket expression, and
\* with REG_NEWLINE a non-matching list never matches a newline.
PayloadExcluded == {"\\", "*", "\n"}

\* first index j >= i with s[j] not in S (Len(s)+1 when there is none)
RECURSIVE SkipIn(_, _, _)
SkipIn(s, i, S) ==
    IF i <= Len(s) /\ s[i] \in S THEN SkipIn(s, i + 1, S) ELSE i

\* first index j >= i with s[j] in S (Len(s)+1 when there is none)
RECURSIVE SkipNotIn(_, _, _)
SkipNotIn(s, i, S) ==
    IF i <= Len(s) /\ s[i] \notin S THEN SkipNotIn(s, i + 1, S) ELSE i

\* `^` with REG_NEWLINE: the start of the string or right after a newline
regex_bol(s, i) == i = 1 \/ s[i - 1] = "\n"

\* `$` with REG_NEWLINE: the end of the string or right before a newline
regex_eol(s, i) == i > Len(s) \/ s[i] = "\n"

\* the match of the pattern that starts at index i, if any; so..eo-1 is group 1
regex_match_at(s, i) ==
    LET open == SkipIn(s, i, BlankBracket)
        so   == open + 3
        eo   == SkipNotIn(s, so, PayloadExcluded)
        rest == SkipIn(s, eo + 2, BlankBracket)
    IN  [ok |-> /\ regex_bol(s, i)
                /\ CharAt(s, open) = "/"
                /\ CharAt(s, open + 1) = "*"
                /\ CharAt(s, open + 2) = "!"
                /\ eo > so
                /\ CharAt(s, eo) = "*"
                /\ CharAt(s, eo + 1) = "/"
                /\ regex_eol(s, rest),
         rm_so |-> so, rm_eo |-> eo]

\* regexec: the leftmost match
regexec(s) ==
    LET starts == {i \in 1..(Len(s) + 1) : regex_match_at(s, i).ok}
    IN  IF starts = {} THEN [ok |-> FALSE, rm_so |-> -1, rm_eo |-> -1]
        ELSE regex_match_at(s, CHOOSE i \in starts : \A j \in starts : i <= j)

\* the hint copied out of group 1, or NULL when nothing matches
extract_hint(sourcecode) ==
    LET m == regexec(sourcecode)
    IN  IF ~m.ok THEN None
        ELSE SubSeq(sourcecode, m.rm_so, m.rm_eo - 1)

\* line 171: hintlen, the size of the block malloc gives hint
hintlen(sourcecode) == regexec(sourcecode).rm_eo - regexec(sourcecode).rm_so

\* the bytes strcpy, strcat and sprintf have stored once the string s stands
\* in a buffer: its characters and the terminator
StoredBytes(s) == Len(s) + 1

\* lines 178-179: strncpy(hint, ..., hintlen) and hint[hintlen] = 0 store
\* hintlen + 1 bytes
extract_hint_stored(sourcecode) == hintlen(sourcecode) + 1

(***************************************************************************)
(* compile: the command line                                               *)
(***************************************************************************)
cmdline_fmt ==
    <<"%","s"," ","%","s"," ","\"","%","s","\""," ","-","o"," ","\"","%","s","\"">>

\* line 210: the size compile passes to malloc
compile_cmdline_len(compiler, extra_flags, filename, output) ==
    Len(cmdline_fmt) - 8 + Len(compiler) + Len(extra_flags) + Len(filename)
        + Len(output) + 1

\* sprintf(cmdline, "%s %s \"%s\" -o \"%s\"", compiler, extra_flags, filename, output)
sprintf_cmdline(compiler, extra_flags, filename, output) ==
    compiler \o <<" ">> \o extra_flags \o <<" ", "\"">> \o filename
        \o <<"\"", " ", "-", "o", " ", "\"">> \o output \o <<"\"">>

compile_compiler(hint) ==
    IF hint # None /\ ~hint_only_flags(hint) THEN hint ELSE DEFAULT_COMPILER

compile_extra_flags(hint) ==
    IF hint # None /\ hint_only_flags(hint) THEN hint ELSE <<>>

compile_cmdline_tmp(filename, output, hint) ==
    sprintf_cmdline(compile_compiler(hint), compile_extra_flags(hint),
                    filename, output \o <<".", "t", "m", "p">>)

compile_cmdline(filename, output, hint) ==
    sprintf_cmdline(compile_compiler(hint), compile_extra_flags(hint),
                    filename, output)

(***************************************************************************)
(* launch: the command line, and the words /bin/sh makes of it             *)
(***************************************************************************)
\* strcat(cmdline, " \""); strcat(cmdline, argv[i]); strcat(cmdline, " \"");
RECURSIVE launch_args(_)
launch_args(argv) ==
    IF argv = <<>> THEN <<>>
    ELSE <<" ", "\"">> \o Head(argv) \o <<" ", "\"">> \o launch_args(Tail(argv))

launch_cmdline(filename, argv) == filename \o launch_args(argv)

\* lines 223-225: cmdline_len, the size launch passes to malloc
RECURSIVE launch_cmdline_len(_, _)
launch_cmdline_len(filename, argv) ==
    IF argv = <<>> THEN Len(filename)
    ELSE launch_cmdline_len(filename, SubSeq(argv, 1, Len(argv) - 1))
            + 3 + Len(argv[Len(argv)])

\* system() hands the line to /bin/sh -c: blanks outside double quotes
\* separate words, a double quote opens or closes a quoted stretch.  (The
\* model's strings hold no backslash, dollar or backquote inside quotes.)
\* An unclosed quote is a syntax error (ok is false): no command runs.
\* the character at i stands inside double quotes
sh_quoted(s, i) == Cardinality({j \in 1..(i - 1) : s[j] = "\""}) % 2 = 1

\* the character at i separates words
sh_blank(s, i) == s[i] \in {" ", "\t"} /\ ~sh_quoted(s, i)

\* where the words start
sh_starts(s) ==
    {i \in 1..Len(s) : ~sh_blank(s, i) /\ (i = 1 \/ sh_blank(s, i - 1))}

\* the word that starts at i: up to the next separator, the quotes removed
sh_word(s, i) ==
    LET stops == {j \in i..Len(s) : j = Len(s) \/ sh_blank(s, j + 1)}
        last  == CHOOSE j \in stops : \A k \in stops : j <= k
    IN  SelectSeq(SubSeq(s, i, last), LAMBDA c : c # "\"")

sh_words(cmdline) ==
    [ok |-> ~sh_quoted(cmdline, Len(cmdline) + 1),
     words |-> [n \in 1..Cardinality(sh_starts(cmdline)) |->
                  sh_word(cmdline,
                          CHOOSE i \in sh_starts(cmdline) :
                             Cardinality({j \in sh_starts(cmdline) : j < i}) = n - 1)]]

(***************************************************************************)
(* The environment of an invocation                                        *)
(***************************************************************************)
\* The invocations that may run, one after the other or concurrently.
Procs == {"p1", "p2"}

SrcHint == <<"/","*","!"," ","-","l","m"," ","*","/","\n","x">>
SrcPlain == <<"x">>

\* The source files: a and b hold the same bytes, d cannot be opened.
Filenames == {<<"a">>, <<"b">>, <<"c">>, <<"d">>}

FileContent(filename) ==
    CASE filename = <<"a">> -> SrcHint
      [] filename = <<"b">> -> SrcHint
      [] filename = <<"c">> -> SrcPlain
      [] OTHER -> None

\* argv after argv[0]: nothing, or the source path and the program arguments
Argvs == {<<>>, << <<"a">> >>, << <<"a">>, <<"x">> >>, << <<"b">> >>,
          << <<"c">>, <<"x">>, <<"y", " ", "z">> >>, << <<"d">> >>}

HomeH == <<"/","h">>

\* getenv("HOME") and the pw_dir of getpwuid(getuid()), NULL when there is none
Envs == {[HOME |-> HomeH, pw_dir |-> HomeH],
         [HOME |-> None,  pw_dir |-> HomeH],
         [HOME |-> None,  pw_dir |-> None]}

\* the exit codes the model lets a child process exit with
ExitCodes == (0..MaxExit) \cup {255}

\* what system() returns for a child that exited with code e: the wait status
W_EXITCODE(e) == e * 256

\* the exit status the caller of runc sees when main returns ret
ExitStatus(ret) == ret % 256

(***************************************************************************)
(* The heap: every buffer is none (never allocated, or a NULL pointer),    *)
(* live, freed, or double_freed.                                           *)
(***************************************************************************)
Buffers == {"sourcecode", "hash", "cache_path", "out_path", "hint",
            "mkdir_buf", "compile_cmdline", "launch_cmdline"}

malloc(heap, b) == [heap EXCEPT ![b] = "live"]

free(heap, b) ==
    [heap EXCEPT ![b] = CASE @ = "live" -> "freed"
                          [] @ = "freed" -> "double_freed"
                          [] OTHER -> @]

free2(heap, a, b) == free(free(heap, a), b)

free3(heap, a, b, c) == free(free(free(heap, a), b), c)

(***************************************************************************)
(* source_hash, to_hex, get_cache_path, get_hash_path                      *)
(***************************************************************************)
SHA_DIGEST_LENGTH == 20

Chars == <<"/","*","!"," ","-","l","m","\n","x">>

Ord(c) == CHOOSE i \in 1..Len(Chars) : Chars[i] = c

RECURSIVE WeightedSum(_, _, _)
WeightedSum(data, j, k) ==
    IF j > Len(data) THEN 0
    ELSE Ord(data[j]) * (j + k) + WeightedSum(data, j + 1, k)

\* SHA1(data, size, hash) stands as a digest that is a function of the bytes
\* alone and differs between the model's two source texts.
SHA1(data) ==
    [i \in 1..SHA_DIGEST_LENGTH |-> (WeightedSum(data, 1, i) + Len(data)) % 256]

HexDigits == <<"0","1","2","3","4","5","6","7","8","9","a","b","c","d","e","f">>

\* sprintf(str + i*2, "%02x", data[i]) for i < n
to_hex(data, n) ==
    Flatten([i \in 1..n |-> <<HexDigits[(data[i] \div 16) + 1],
                              HexDigits[(data[i] % 16) + 1]>>])

get_homedir_empty(env) ==
    IF env.HOME # None THEN env.HOME
    ELSE IF env.pw_dir # None THEN env.pw_dir ELSE <<>>

\* the home directory get_cache_path settles on, NULL when there is none
get_homedir(env) == IF env.HOME # None THEN env.HOME ELSE env.pw_dir

\* neither getenv("HOME") nor the user record gives a home directory
get_homedir_is_null(env) == env.HOME = None /\ env.pw_dir = None

path_part == <<"/",".","r","u","n","c","/","c","a","c","h","e","/">>

get_cache_path(env) ==
    IF get_homedir(env) = None THEN None ELSE get_homedir(env) \o path_part

get_hash_path(cache_path, hash) ==
    cache_path \o to_hex(hash, SHA_DIGEST_LENGTH)

\* line 114: the size get_cache_path passes to malloc
get_cache_path_len(homedir) == Len(path_part) + Len(homedir) + 1

\* line 124: the size of hash_hex
hash_hex_len == SHA_DIGEST_LENGTH * 2 + 1

\* line 128: the size get_hash_path passes to malloc for path
get_hash_path_len(cache_path, hash) ==
    Len(cache_path) + Len(to_hex(hash, SHA_DIGEST_LENGTH)) + 1

(***************************************************************************)
(* file_exists, mkdir_p                                                    *)
(***************************************************************************)
file_exists_never(files, filename) == FALSE

\* fopen(filename, "rb") != NULL
file_exists(files, filename) == filename \in files

\* mkdir(buf, mode) at every '/' of dir; `denied` are the directories the
\* system refuses to create (an errno other than EEXIST and EISDIR).
RECURSIVE mkdir_p_from(_, _, _, _, _)
mkdir_p_from(dirs, dir, i, denied, calls) ==
    IF i > Len(dir) THEN [result |-> 0, dirs |-> dirs, calls |-> calls]
    ELSE IF dir[i] # "/" THEN mkdir_p_from(dirs, dir, i + 1, denied, calls)
    ELSE IF SubSeq(dir, 1, i) \in dirs
    THEN mkdir_p_from(dirs, dir, i + 1, denied, calls + 1)
    ELSE IF SubSeq(dir, 1, i) \in denied
    THEN [result |-> -1, dirs |-> dirs, calls |-> calls + 1]
    ELSE mkdir_p_from(dirs \cup {SubSeq(dir, 1, i)}, dir, i + 1, denied, calls + 1)

mkdir_p(dirs, dir, denied) == mkdir_p_from(dirs, dir, 1, denied, 0)

\* the directories mkdir_p(dir) passes to mkdir
Components(dir) == {SubSeq(dir, 1, i) : i \in {j \in 1..Len(dir) : dir[j] = "/"}}

(***************************************************************************)
(* main: one invocation per process                                        *)
(*                                                                         *)
(* proc[p] holds main's locals, where it stands (pc), how it ended (ret,   *)
(* the value main returned, or signal, when it was killed) and what it did *)
(* (probed, mkdir_calls, compiles, compiler_exit, launched, failure, ub).  *)
(* compile_ok is -1 and compiler_exit is -1 until they are set.            *)
(* fs holds the directories and the readable files of the cache tree.      *)
(***************************************************************************)
InitProc ==
    [pc |-> "idle", argv |-> <<>>, sourcecode |-> None,
     hash |-> None, cache_path |-> None, out_path |-> None, hint |-> None,
     compile_ok |-> -1, compile_result |-> None, ret |-> None,
     signal |-> "none", heap |-> [b \in Buffers |-> "none"],
     after |-> {}, probed |-> "none", mkdir_calls |-> 0, compiles |-> 0,
     homeless |-> FALSE, cmdline |-> None, compiler_exit |-> -1, launches |-> 0,
     launched |-> None, failure |-> "none", ub |-> {}]

Init ==
    /\ proc = [p \in Procs |-> InitProc]
    /\ fs = [dirs |-> {<<"/">>, HomeH \o <<"/">>}, files |-> {}]
    /\ call = [fn |-> "none"]

\* main returns ret
Return(r, ret, failure) ==
    [r EXCEPT !.pc = "done", !.ret = ret, !.failure = failure]

\* the process is killed by a signal where it stands
Crash(r, signal, ub) ==
    [r EXCEPT !.pc = "crashed", !.signal = signal, !.ub = @ \cup {ub}]

Step(p, r) == proc' = [proc EXCEPT ![p] = r]

Finished(p) == proc[p].pc \in {"done", "crashed"}

\* lines 244-255: the usage check and readfilestr
Main_Read(p) ==
    /\ proc[p].pc = "idle"
    /\ UNCHANGED <<fs, call>>
    /\ \E argv \in Argvs :
         LET r == [proc[p] EXCEPT !.argv = argv,
                                  !.after = {q \in Procs : Finished(q)}]
         IN  \/ /\ Len(argv) = 0
                /\ Step(p, Return(r, 1, "usage"))
             \/ /\ Len(argv) > 0
                /\ FileContent(argv[1]) = None
                /\ Step(p, Return(r, 1, "read"))
             \/ /\ Len(argv) > 0
                /\ FileContent(argv[1]) # None
                /\ Step(p, [r EXCEPT !.pc = "hash",
                                     !.sourcecode = FileContent(argv[1]),
                                     !.heap = malloc(@, "sourcecode")])
             \* fread returns fewer bytes than the file holds
             \/ /\ Len(argv) > 0
                /\ FileContent(argv[1]) # None
                /\ Step(p, Return([r EXCEPT !.heap =
                              free(malloc(@, "sourcecode"), "sourcecode")],
                              1, "read"))
             \* malloc returns NULL: filedata[filesize] = 0 stores through it
             \/ /\ Len(argv) > 0
                /\ FileContent(argv[1]) # None
                /\ Step(p, Crash(r, "SIGSEGV", "null_store"))

source_hash_argument_argc(r) == r.sourcecode \o [i \in 1..Len(r.argv) |-> "x"]

\* line 257: what main, with locals r, passes to source_hash
source_hash_argument(r) == r.sourcecode

\* lines 257-262: source_hash
Main_Hash(p) ==
    /\ proc[p].pc = "hash"
    /\ UNCHANGED <<fs, call>>
    /\ \/ Step(p, [proc[p] EXCEPT !.pc = "cache_path",
                                  !.hash = SHA1(source_hash_argument(proc[p])),
                                  !.heap = malloc(@, "hash")])
       \/ Step(p, Return([proc[p] EXCEPT !.heap = free(@, "sourcecode")],
                         1, "hash"))

\* lines 264-269: get_cache_path, which reads the environment env
Main_CachePath(p) ==
    /\ proc[p].pc = "cache_path"
    /\ UNCHANGED <<fs, call>>
    /\ \E env \in Envs :
         \/ /\ get_cache_path(env) = None
            /\ Step(p, Return([proc[p] EXCEPT !.heap = free(@, "sourcecode"),
                                              !.homeless = TRUE],
                              1, "home"))
         \/ /\ get_cache_path(env) # None
            /\ Step(p, [proc[p] EXCEPT !.pc = "hash_path",
                                       !.homeless = get_homedir_is_null(env),
                                       !.cache_path = get_cache_path(env),
                                       !.heap = malloc(@, "cache_path")])
         \* malloc returns NULL: strcpy(path, homedir) stores through it
         \/ /\ get_cache_path(env) # None
            /\ Step(p, Crash(proc[p], "SIGSEGV", "null_store"))

\* lines 271-278: get_hash_path, free(hash)
Main_HashPath(p) ==
    /\ proc[p].pc = "hash_path"
    /\ UNCHANGED <<fs, call>>
    /\ \/ Step(p, [proc[p] EXCEPT
                     !.pc = "probe",
                     !.out_path = get_hash_path(proc[p].cache_path, proc[p].hash),
                     !.heap = malloc(free(@, "hash"), "out_path")])
       \/ Step(p, Return([proc[p] EXCEPT
                            !.heap = free3(@, "hash", "sourcecode", "cache_path")],
                         1, "path"))

probe_branch_mkdir(exists) == "mkdir"

\* line 280: if (!file_exists(out_path)) guards lines 281-308
probe_branch(exists) == IF exists THEN "launch" ELSE "mkdir"

\* line 280: file_exists(out_path); on a miss fclose(NULL) is undefined
Main_Probe(p) ==
    /\ proc[p].pc = "probe"
    /\ UNCHANGED <<fs, call>>
    /\ \/ /\ file_exists(fs.files, proc[p].out_path)
          /\ Step(p, [proc[p] EXCEPT !.pc = probe_branch(TRUE),
                                     !.probed = "hit"])
       \/ /\ ~file_exists(fs.files, proc[p].out_path)
          /\ Step(p, [proc[p] EXCEPT !.pc = probe_branch(FALSE),
                                     !.probed = "miss",
                                     !.ub = @ \cup {"fclose_null"}])
       \/ /\ ~file_exists(fs.files, proc[p].out_path)
          /\ Step(p, Crash([proc[p] EXCEPT !.probed = "miss"],
                           "SIGSEGV", "fclose_null"))

\* lines 281-288: mkdir_p(cache_path, dir_mode)
Main_Mkdir(p) ==
    /\ proc[p].pc = "mkdir"
    /\ UNCHANGED call
    /\ \/ \E denied \in {{}} \cup {{d} : d \in Components(proc[p].cache_path)} :
            LET m == mkdir_p(fs.dirs, proc[p].cache_path, denied)
                r == [proc[p] EXCEPT !.mkdir_calls = m.calls]
            IN  /\ fs' = [fs EXCEPT !.dirs = m.dirs]
                /\ IF m.result # 0
                   THEN Step(p, Return([r EXCEPT !.heap =
                              free3(free(malloc(@, "mkdir_buf"), "mkdir_buf"),
                                    "sourcecode", "cache_path", "out_path")],
                              1, "mkdir"))
                   \* buf is never freed when mkdir_p returns 0
                   ELSE Step(p, [r EXCEPT !.pc = "compile",
                                          !.heap = malloc(@, "mkdir_buf")])
       \* malloc of buf returns NULL: mkdir_p returns 1
       \/ /\ UNCHANGED fs
          /\ Step(p, Return([proc[p] EXCEPT !.heap =
                        free3(@, "sourcecode", "cache_path", "out_path")],
                        1, "mkdir"))

\* lines 290-292, to the system() call of compile: extract_hint, then the
\* command line; hint_ok is false when regcomp or malloc fails in extract_hint
Main_Compile(p) ==
    /\ proc[p].pc = "compile"
    /\ UNCHANGED call
    /\ \E hint_ok \in BOOLEAN :
         LET hint == IF hint_ok THEN extract_hint(proc[p].sourcecode) ELSE None
             \* hint[hintlen] = 0 lies one past the malloc(hintlen) block
             r == IF hint = None THEN proc[p]
                  ELSE [proc[p] EXCEPT !.hint = hint,
                                       !.heap = malloc(@, "hint"),
                                       !.ub = @ \cup {"hint_overflow"}]
         IN  \/ /\ hint # None
                /\ UNCHANGED fs
                /\ Step(p, Crash(r, "SIGABRT", "hint_overflow"))
             \* malloc of cmdline returns NULL: compile returns false
             \/ /\ UNCHANGED fs
                /\ Step(p, [r EXCEPT !.pc = "after_compile",
                                     !.compile_ok = 0])
             \* system(cmdline): the compiler starts and opens its output
             \/ /\ fs' = [fs EXCEPT !.files = @ \cup {proc[p].out_path}]
                /\ Step(p, [r EXCEPT
                              !.pc = "compiling",
                              !.cmdline = compile_cmdline(proc[p].argv[1],
                                                          proc[p].out_path, hint),
                              !.compiles = @ + 1,
                              !.heap = malloc(@, "compile_cmdline")])

\* lines 215-218: system() returns once the compiler has exited with code e;
\* a compiler that fails leaves no output file
Main_CompileReturn(p) ==
    /\ proc[p].pc = "compiling"
    /\ UNCHANGED call
    /\ \E e \in ExitCodes :
         /\ fs' = [fs EXCEPT !.files =
                      IF e = 0 THEN @ \cup {proc[p].out_path}
                      ELSE @ \ {proc[p].out_path}]
         /\ Step(p, [proc[p] EXCEPT !.pc = "after_compile",
                                    !.compile_ok = 1,
                                    !.compile_result = W_EXITCODE(e),
                                    !.compiler_exit = e,
                                    !.heap = free(@, "compile_cmdline")])

\* the values an int that was never assigned may hold
Uninitialized == {0, 1}

compile_failed_negative(compile_result) == compile_result < 0

\* line 302: compile_result != 0
compile_failed(compile_result) == compile_result # 0

\* lines 293-307: free(hint), the compile_ok check and the compile_result check
Main_AfterCompile(p) ==
    /\ proc[p].pc = "after_compile"
    /\ UNCHANGED <<fs, call>>
    /\ LET r == [proc[p] EXCEPT !.heap = free(@, "hint")]
           \* lines 296-299 do not return: line 302 is reached either way
           n == [r EXCEPT !.heap = free3(@, "sourcecode", "cache_path", "out_path"),
                          !.ub = @ \cup {"uninit_read"}]
       IN  \/ /\ r.compile_ok # 0
              /\ compile_failed(r.compile_result)
              /\ Step(p, Return([r EXCEPT !.heap =
                            free3(@, "sourcecode", "cache_path", "out_path")],
                            r.compile_result, "compile"))
           \/ /\ r.compile_ok # 0
              /\ ~compile_failed(r.compile_result)
              /\ Step(p, [r EXCEPT !.pc = "launch"])
           \/ /\ r.compile_ok = 0
              /\ \E v \in Uninitialized :
                   /\ compile_failed(v)
                   /\ \/ Step(p, Return([n EXCEPT
                               !.compile_result = v,
                               !.heap = free3(@, "sourcecode", "cache_path", "out_path"),
                               !.ub = @ \cup {"double_free"}],
                               v, "compile_invoke"))
                      \/ Step(p, Crash([n EXCEPT !.compile_result = v],
                                       "SIGABRT", "double_free"))
           \/ /\ r.compile_ok = 0
              /\ \E v \in Uninitialized :
                   /\ ~compile_failed(v)
                   /\ Step(p, [n EXCEPT !.pc = "launch", !.compile_result = v])

\* what the launched path names: no file, a file a compiler is still
\* writing, or a complete one
FileState(p, path) ==
    IF path \notin fs.files THEN "absent"
    ELSE IF \E q \in Procs \ {p} :
              proc[q].pc = "compiling" /\ proc[q].out_path = path
    THEN "partial"
    ELSE "complete"

\* the codes the child of launch's system() may exit with: 127 from the
\* shell when there is no file to run
LaunchExitCodes(state) == IF state = "absent" THEN {127} ELSE ExitCodes

\* lines 310-321: the frees, launch and the return of its result
Main_Launch(p) ==
    /\ proc[p].pc = "launch"
    /\ UNCHANGED <<fs, call>>
    /\ LET stale == proc[p].heap["out_path"] = "freed"
           r == [proc[p] EXCEPT
                   !.heap = free2(@, "sourcecode", "cache_path"),
                   !.ub = @ \cup (IF stale THEN {"double_free", "use_after_free"}
                                  ELSE {})]
           argv == Tail(proc[p].argv)
           cmdline == launch_cmdline(proc[p].out_path, argv)
           state == FileState(p, proc[p].out_path)
       IN  \* malloc of cmdline returns NULL: launch returns false, and line
           \* 317 prints out_path after line 315 has freed it
           \/ Step(p, Return([r EXCEPT !.heap = free(@, "out_path"),
                                       !.ub = @ \cup {"use_after_free"}],
                             1, "launch"))
           \* strcpy and strcat write past the malloc(cmdline_len) block
           \/ Step(p, Crash(r, "SIGABRT", "launch_overflow"))
           \/ \E e \in LaunchExitCodes(state) :
                Step(p, Return([r EXCEPT
                          !.cmdline = cmdline,
                          !.launches = @ + 1,
                          !.launched = [argv |-> sh_words(cmdline).words,
                                        file |-> state, exit |-> e],
                          !.heap = free2(malloc(@, "launch_cmdline"),
                                         "launch_cmdline", "out_path"),
                          !.ub = @ \cup {"launch_overflow"}],
                          W_EXITCODE(e), "none"))

Next ==
    \E p \in Procs :
       \/ Main_Read(p)
       \/ Main_Hash(p)
       \/ Main_CachePath(p)
       \/ Main_HashPath(p)
       \/ Main_Probe(p)
       \/ Main_Mkdir(p)
       \/ Main_Compile(p)
       \/ Main_CompileReturn(p)
       \/ Main_AfterCompile(p)
       \/ Main_Launch(p)

Spec == Init /\ [][Next]_vars

(***************************************************************************)
(* The string functions on their own: a behaviour of SpecFn applies one of *)
(* them to one input of a bounded set and keeps the call and its result in *)
(* call.                                                                   *)
(***************************************************************************)
HintAlphabet == {"-", " ", "\t", "g"}

HintInputs == SeqsUpTo(HintAlphabet, MaxHintLen)

Leads == {<<>>, <<" ">>, <<"a">>}

Bodies == {<<"/","*","!"," ","-","O","2"," ","*","/">>,
           <<"/","*","!"," ","*","/">>,
           <<"/","*","!","*","/">>,
           <<"/","*","!","g","*","c","*","/">>,
           <<"/","*","!","\\","*","/">>,
           <<"/","*","-","O","2","*","/">>,
           <<"x">>}

Trails == {<<>>, <<" ">>}

LineInputs == {Cat3(l, b, t) : l \in Leads, b \in Bodies, t \in Trails}

RECURSIVE JoinLines(_)
JoinLines(lines) ==
    IF Len(lines) = 1 THEN lines[1]
    ELSE lines[1] \o <<"\n">> \o JoinLines(Tail(lines))

SourceInputs == {JoinLines(ls) : ls \in SeqsUpTo(LineInputs, MaxLines) \ {<<>>}}

ArgInputs == {<<>>, <<"x">>, <<"y", " ", "z">>}

ArgvInputs == SeqsUpTo(ArgInputs, MaxArgs)

\* the paths the calls of SpecFn are given
FnSource == <<"a",".","c">>
FnOutput == <<"/","h","/","o">>

Call_hint_only_flags ==
    /\ call.fn = "none"
    /\ UNCHANGED <<proc, fs>>
    /\ \E options \in HintInputs :
         call' = [fn |-> "hint_only_flags", options |-> options,
                  result |-> hint_only_flags(options),
                  last |-> hint_only_flags_last(options)]

Call_extract_hint ==
    /\ call.fn = "none"
    /\ UNCHANGED <<proc, fs>>
    /\ \E sourcecode \in SourceInputs :
         call' = [fn |-> "extract_hint", sourcecode |-> sourcecode,
                  result |-> extract_hint(sourcecode),
                  allocated |-> IF extract_hint(sourcecode) = None THEN 0
                                ELSE hintlen(sourcecode),
                  stored |-> IF extract_hint(sourcecode) = None THEN 0
                             ELSE extract_hint_stored(sourcecode)]

\* the hint is NULL or a payload extract_hint can return: never empty
Call_compile ==
    /\ call.fn = "none"
    /\ UNCHANGED <<proc, fs>>
    /\ \E hint \in (HintInputs \ {<<>>}) \cup {None} :
         call' = [fn |-> "compile", filename |-> FnSource, output |-> FnOutput,
                  hint |-> hint,
                  cmdline |-> compile_cmdline(FnSource, FnOutput, hint),
                  allocated |-> compile_cmdline_len(compile_compiler(hint),
                                   compile_extra_flags(hint), FnSource, FnOutput),
                  stored |-> StoredBytes(compile_cmdline(FnSource, FnOutput, hint))]

Call_launch ==
    /\ call.fn = "none"
    /\ UNCHANGED <<proc, fs>>
    /\ \E argv \in ArgvInputs :
         call' = [fn |-> "launch", filename |-> FnOutput, argv |-> argv,
                  cmdline |-> launch_cmdline(FnOutput, argv),
                  received |-> sh_words(launch_cmdline(FnOutput, argv)),
                  allocated |-> launch_cmdline_len(FnOutput, argv),
                  stored |-> StoredBytes(launch_cmdline(FnOutput, argv))]

\* the paths mkdir_p is called with, with and without a trailing '/'
DirInputs == {<<"/","h","/">>, <<"/","h">>,
              <<"/","h","/","c","/">>, <<"/","h","/","c">>, <<"c">>}

\* the directories there are before the call
DirsBefore == {{<<"/">>}, {<<"/">>, <<"/","h","/">>}}

Call_mkdir_p ==
    /\ call.fn = "none"
    /\ UNCHANGED <<proc, fs>>
    /\ \E dir \in DirInputs, before \in DirsBefore :
         \E denied \in {{}} \cup {{d} : d \in Components(dir)} :
            call' = [fn |-> "mkdir_p", dir |-> dir, before |-> before,
                     denied |-> denied,
                     result |-> mkdir_p(before, dir, denied).result,
                     dirs |-> mkdir_p(before, dir, denied).dirs,
                     calls |-> mkdir_p(before, dir, denied).calls]

\* the home directories get_cache_path is called with
HomeInputs == {<<>>, <<"/">>, HomeH}

Call_get_cache_path ==
    /\ call.fn = "none"
    /\ UNCHANGED <<proc, fs>>
    /\ \E home \in HomeInputs, pw_dir \in HomeInputs \cup {None},
          from_env \in BOOLEAN :
         LET env == [HOME |-> IF from_env THEN home ELSE None, pw_dir |-> pw_dir]
         IN  call' = [fn |-> "get_cache_path", env |-> env,
                      result |-> get_cache_path(env),
                      allocated |-> IF get_cache_path(env) = None THEN 0
                                    ELSE get_cache_path_len(get_homedir(env)),
                      stored |-> IF get_cache_path(env) = None THEN 0
                                 ELSE StoredBytes(get_cache_path(env))]

Call_get_hash_path ==
    /\ call.fn = "none"
    /\ UNCHANGED <<proc, fs>>
    /\ \E home \in HomeInputs, sourcecode \in {SrcHint, SrcPlain} :
         LET cache_path == home \o path_part
             hash == SHA1(sourcecode)
         IN  call' = [fn |-> "get_hash_path", cache_path |-> cache_path,
                      hash |-> hash,
                      result |-> get_hash_path(cache_path, hash),
                      hex_allocated |-> hash_hex_len,
                      hex_stored |-> StoredBytes(to_hex(hash, SHA_DIGEST_LENGTH)),
                      allocated |-> get_hash_path_len(cache_path, hash),
                      stored |-> StoredBytes(get_hash_path(cache_path, hash))]

NextFn ==
    \/ Call_hint_only_flags
    \/ Call_extract_hint
    \/ Call_compile
    \/ Call_launch
    \/ Call_mkdir_p
    \/ Call_get_cache_path
    \/ Call_get_hash_path

SpecFn == Init /\ [][NextFn]_vars

(***************************************************************************)
(* Properties                                                              *)
(***************************************************************************)
\* main has returned: proc[p].ret is the value it returned
Exited(p) == proc[p].pc = "done"

\* C1: an invocation whose compiler child exited with a nonzero code never
\* performs the launch step: it stands before the result check or has
\* returned, and it has launched nothing.
C1_NoLaunchAfterCompileFailure ==
    \A p \in Procs :
       proc[p].compiler_exit > 0
          => /\ proc[p].pc \in {"after_compile", "done"}
             /\ proc[p].launches = 0

\* C1 witness: a compiler exited nonzero and main has returned
C1_Witness ==
    \E p \in Procs :
       /\ proc[p].compiler_exit > 0
       /\ Exited(p)
       /\ proc[p].probed = "miss"

\* C2: when an invocation starts after another one has finished whose
\* compile of the same bytes for the same cache directory exited 0, the
\* entry is there to be read, the probe hits it, and the later invocation
\* goes to launch and never compiles: the compile step ran once in total.
C2_SecondRunSkipsCompile ==
    \A p, q \in Procs :
       (/\ p \in proc[q].after
        /\ proc[p].compiler_exit = 0
        /\ proc[q].sourcecode = proc[p].sourcecode
        /\ proc[q].out_path = proc[p].out_path)
          => /\ proc[q].out_path \in fs.files
             /\ proc[q].pc \in {"probe", "launch", "done", "crashed"}
             /\ proc[q].pc # "probe" => proc[q].probed = "hit"
             /\ proc[q].compiles = 0
             /\ proc[p].compiles = 1

\* C2 witness: the second invocation has hit the entry and launched it
C2_Witness ==
    \E p, q \in Procs :
       /\ p \in proc[q].after
       /\ proc[p].compiler_exit = 0
       /\ proc[q].out_path = proc[p].out_path
       /\ proc[q].probed = "hit"
       /\ proc[q].launches = 1

\* C3: when the launched artifact exits with code e, the exit status of
\* runc is e.
C3_LaunchExitPassedThrough ==
    \A p \in Procs :
       (Exited(p) /\ proc[p].launches = 1 /\ proc[p].launched.file = "complete")
          => ExitStatus(proc[p].ret) = proc[p].launched.exit

\* C4: when the compiler exits with a nonzero code c, the exit status of
\* runc is c (and so is never 0).
C4_CompilerExitPassedThrough ==
    \A p \in Procs :
       (Exited(p) /\ proc[p].compiler_exit > 0)
          => ExitStatus(proc[p].ret) = proc[p].compiler_exit

\* the source path is given and cannot be read
Unreadable(p) ==
    /\ proc[p].pc # "idle"
    /\ Len(proc[p].argv) > 0
    /\ FileContent(proc[p].argv[1]) = None

\* C5: after each failure before the compile step (source unreadable, digest
\* not allocated, no home directory, entry path not built, cache directory
\* not creatable) main has returned with exit status 1 and has neither
\* compiled nor launched; with no home directory it has moreover not probed
\* the entry and has called mkdir not once.
C5_EarlyFailuresExitOne ==
    \A p \in Procs :
       /\ (\/ Unreadable(p)
           \/ proc[p].homeless
           \/ proc[p].failure \in {"read", "hash", "path", "mkdir"})
             => /\ Exited(p)
                /\ ExitStatus(proc[p].ret) = 1
                /\ proc[p].compiles = 0
                /\ proc[p].launches = 0
       /\ proc[p].homeless
             => /\ proc[p].probed = "none"
                /\ proc[p].mkdir_calls = 0

\* C5 witness: both invocations failed early, one for want of a home
\* directory, one because the cache directory could not be created
C5_Witness ==
    \E p, q \in Procs :
       /\ proc[p].homeless /\ Exited(p)
       /\ proc[q].failure = "mkdir" /\ proc[q].mkdir_calls > 0 /\ Exited(q)

\* C6: once compile has returned false, main stands right after the call or
\* has returned a nonzero value, without reading the compile result it was
\* never given, without launching, and without freeing or reading a buffer
\* it has released.
C6_InvokeFailureTerminates ==
    \A p \in Procs :
       proc[p].compile_ok = 0
          => \/ proc[p].pc = "after_compile"
             \/ /\ Exited(p)
                /\ proc[p].ret # 0
                /\ proc[p].launches = 0
                /\ proc[p].ub \cap {"uninit_read", "double_free",
                                    "use_after_free"} = {}

Whitespace == {" ", "\t", "\n", VT, "\f", "\r"}

\* the classification of a hint as the specification words it
SpecFlagsOnly(hint) ==
    \/ SkipIn(hint, 1, Whitespace) > Len(hint)
    \/ hint[SkipIn(hint, 1, Whitespace)] = "-"

\* C7: hint_only_flags returns true exactly when the first character that
\* is not whitespace is '-' or there is no such character, and reads nothing
\* beyond the terminator.
C7_HintOnlyFlags ==
    call.fn = "hint_only_flags"
       => /\ call.result = SpecFlagsOnly(call.options)
          /\ call.last <= Len(call.options) + 1

Blanks == {" ", "\t"}

\* the lines of a text
TextLines(s) ==
    {SubSeq(s, i, SkipNotIn(s, i, {"\n"}) - 1) :
        i \in {j \in 1..(Len(s) + 1) : j = 1 \/ s[j - 1] = "\n"}}

\* blanks, the opener, a payload that is not empty and holds no '*', the
\* closer, blanks
SpecHintLine(line) ==
    LET open == SkipIn(line, 1, Blanks)
        from == open + 3
        to   == SkipNotIn(line, from, {"*"})
    IN  /\ CharAt(line, open) = "/"
        /\ CharAt(line, open + 1) = "*"
        /\ CharAt(line, open + 2) = "!"
        /\ to > from
        /\ CharAt(line, to) = "*"
        /\ CharAt(line, to + 1) = "/"
        /\ SkipIn(line, to + 2, Blanks) > Len(line)

SpecPayload(line) ==
    SubSeq(line, SkipIn(line, 1, Blanks) + 3,
           SkipNotIn(line, SkipIn(line, 1, Blanks) + 3, {"*"}) - 1)

RECURSIVE TrimBlanks(_)
TrimBlanks(s) ==
    IF s # <<>> /\ Head(s) \in Blanks THEN TrimBlanks(Tail(s))
    ELSE IF s # <<>> /\ s[Len(s)] \in Blanks
    THEN TrimBlanks(SubSeq(s, 1, Len(s) - 1))
    ELSE s

\* C8: extract_hint returns a hint exactly when the text has a hint line,
\* and the hint is then the payload of such a line (up to the blanks around
\* it).
C8_ExtractHint ==
    call.fn = "extract_hint"
       => LET hintlines == {l \in TextLines(call.sourcecode) : SpecHintLine(l)}
          IN  /\ call.result # None <=> hintlines # {}
              /\ call.result # None
                    => \E l \in hintlines :
                          TrimBlanks(call.result) = TrimBlanks(SpecPayload(l))

\* C9: the command compile runs is, word for word, the default compiler and
\* flags, then the words of a flags-only hint if there is one, then the
\* source and output arguments; with a full-command hint the words of the
\* hint stand in place of the default compiler and flags.
C9_CompileCommand ==
    call.fn = "compile"
       => sh_words(call.cmdline).words =
             (IF call.hint = None THEN sh_words(DEFAULT_COMPILER).words
              ELSE IF SpecFlagsOnly(call.hint)
              THEN sh_words(DEFAULT_COMPILER).words \o sh_words(call.hint).words
              ELSE sh_words(call.hint).words)
             \o <<call.filename, <<"-", "o">>, call.output>>

\* C10: the launched program receives the trailing arguments as they were
\* given: as many, each the same characters.
C10_LaunchArgsVerbatim ==
    call.fn = "launch"
       => /\ call.received.ok
          /\ call.received.words = <<call.filename>> \o call.argv

\* C11: an invocation whose probe hit the entry has called mkdir not once,
\* has extracted no hint and has compiled nothing, and stands at launch or
\* has finished; mkdir is called only by invocations whose probe missed; and
\* no step of an invocation that hit the entry changes the directories or
\* the files of the cache.
C11_HitLeavesCacheAlone ==
    /\ [](\A p \in Procs :
            /\ proc[p].probed = "hit"
                  => /\ proc[p].mkdir_calls = 0
                     /\ proc[p].hint = None
                     /\ proc[p].heap["hint"] = "none"
                     /\ proc[p].compiles = 0
                     /\ proc[p].compile_ok = -1
                     /\ proc[p].pc \in {"launch", "done", "crashed"}
            /\ proc[p].mkdir_calls > 0 => proc[p].probed = "miss")
    /\ [][\A p \in Procs :
             (proc'[p].pc # proc[p].pc /\ proc'[p].probed = "hit")
                => fs' = fs]_vars

\* C11 witness: an invocation hit an entry, launched it and has returned,
\* beside one that missed and created directories
C11_Witness ==
    \E p, q \in Procs :
       /\ proc[p].probed = "hit" /\ proc[p].launches = 1 /\ Exited(p)
       /\ proc[q].probed = "miss" /\ proc[q].mkdir_calls > 0

\* C12: two invocations that read the same bytes and resolved the same
\* cache directory (the same home directory) have the same entry path,
\* whatever their source file names, their trailing arguments and the files
\* the cache held; and an invocation that starts after another one compiled
\* the same bytes with exit code 0 for the same cache directory hits that
\* entry when it probes, under whatever name it read the bytes.
C12_EntryPathOfBytesAndHome ==
    \A p, q \in Procs :
       (/\ proc[p].out_path # None
        /\ proc[q].out_path # None
        /\ proc[p].sourcecode = proc[q].sourcecode
        /\ proc[p].cache_path = proc[q].cache_path)
          => /\ proc[p].out_path = proc[q].out_path
             /\ (/\ p \in proc[q].after
                 /\ proc[p].compiler_exit = 0
                 /\ proc[q].probed # "none")
                   => proc[q].probed = "hit"

\* C12 witness: the second invocation read the same bytes under another
\* name, with other arguments, and hit the entry the first one wrote
C12_Witness ==
    \E p, q \in Procs :
       /\ p \in proc[q].after
       /\ proc[p].compiler_exit = 0
       /\ proc[q].probed = "hit"
       /\ proc[q].out_path = proc[p].out_path
       /\ proc[p].sourcecode = proc[q].sourcecode
       /\ proc[p].argv[1] # proc[q].argv[1]
       /\ Len(proc[p].argv) # Len(proc[q].argv)

\* C13: when main has returned, each buffer the invocation allocated has
\* been released exactly once: none is still allocated and none was released
\* twice.
C13_BuffersReleasedOnce ==
    \A p \in Procs :
       Exited(p) => \A b \in Buffers : proc[p].heap[b] \in {"none", "freed"}

\* the last word of a command line
LastWord(cmdline) == LET words == sh_words(cmdline).words IN words[Len(words)]

\* C14: a compile step in progress follows a probe that missed and has the
\* compiler write the entry path itself; and while one invocation is at or
\* in its compile step, another one that missed on the same entry path and
\* stands at its compile step can start its compiler as well: nothing makes
\* it wait.
C14_ConcurrentCompilesSameEntry ==
    /\ \A p \in Procs :
          proc[p].pc = "compiling"
             => /\ proc[p].probed = "miss"
                /\ LastWord(proc[p].cmdline) = proc[p].out_path
    /\ \A p, q \in Procs :
          (/\ p # q
           /\ proc[p].pc = "compile"
           /\ proc[q].pc \in {"compile", "compiling"}
           /\ proc[p].out_path = proc[q].out_path)
             => ENABLED (Main_Compile(p) /\ proc'[p].pc = "compiling")

\* C14 witness: both invocations missed on the same entry path and both
\* compilers are running, writing it
C14_Witness ==
    \E p, q \in Procs :
       /\ p # q
       /\ proc[p].pc = "compiling" /\ proc[p].probed = "miss"
       /\ proc[q].pc = "compiling" /\ proc[q].probed = "miss"
       /\ proc[p].out_path = proc[q].out_path
       /\ proc[p].sourcecode = proc[q].sourcecode

\* C15: the probe reports a miss as a normal result: an invocation whose
\* probe found no file has not been killed in the probe (killed with nothing
\* undefined executed but the probe's fclose), so it stands at directory
\* creation or further on, towards a return.
C15_ProbeMissIsNormal ==
    \A p \in Procs :
       proc[p].probed = "miss"
          => ~(proc[p].pc = "crashed" /\ proc[p].ub = {"fclose_null"})

\* the directory components of dir, each named with its closing '/': the
\* prefixes that end before or at a '/', and dir itself
SpecComponents(dir) ==
    Components(dir)
       \cup (IF dir # <<>> /\ dir[Len(dir)] # "/" THEN {dir \o <<"/">>} ELSE {})

\* C16: when mkdir_p returns 0 every directory component of dir exists, the
\* last one included, with or without a '/' at the end of dir; it returns 0
\* when no component that has to be created is refused (one that exists
\* already is no error); and when it returns nonzero, a component was
\* refused and nothing beyond it has been created.
C16_MkdirPCreatesChain ==
    call.fn = "mkdir_p"
       => /\ call.result = 0 => SpecComponents(call.dir) \subseteq call.dirs
          /\ (call.denied \cap SpecComponents(call.dir)) \ call.before = {}
                => call.result = 0
          /\ call.result # 0
                => \E d \in call.denied \ call.before :
                      call.dirs = call.before \cup
                         {c \in SpecComponents(call.dir) : Len(c) < Len(d)}

\* C17: an invocation that launches, after a hit or after its own compiler
\* has exited, executes a complete artifact: the file at the entry path is
\* there and no other invocation's compiler is still writing it.
C17_LaunchesCompleteArtifact ==
    \A p \in Procs :
       (proc[p].launches = 1 /\ proc[p].compile_ok # 0)
          => proc[p].launched.file = "complete"

\* the functions that build a string in a block they allocate
Builders == {"launch", "extract_hint", "compile", "get_cache_path",
             "get_hash_path"}

\* C18: no string builder stores more bytes, terminator included, than the
\* block it allocated holds: the command line of launch, the hint of
\* extract_hint, the command line of compile, the path of get_cache_path,
\* and the hexadecimal digest and the path of get_hash_path.
C18_BuildersStayInBounds ==
    /\ call.fn \in Builders => call.stored <= call.allocated
    /\ call.fn = "get_hash_path" => call.hex_stored <= call.hex_allocated

\* C19: main reads no buffer it has released and no value it was never
\* given: out_path is not printed, passed to launch or freed again after its
\* free, and compile_result is not read when compile did not store it.
C19_NoUseAfterRelease ==
    \A p \in Procs :
       proc[p].ub \cap {"use_after_free", "double_free", "uninit_read"} = {}

=============================================================================
